---------------------------- MODULE Spec2Model ----------------------------
(***************************************************************************)
(* TransactionContext of peloton (src/concurrency/transaction_context.cpp) *)
(* as a state machine: the per-slot read/write set, insert_count_,         *)
(* is_written_ and the calls RecordRead, RecordReadOwn, RecordUpdate,      *)
(* RecordInsert and RecordDelete on a freshly constructed context; the     *)
(* identifiers set by Init, the garbage sets and the on-commit triggers.   *)
(***************************************************************************)
EXTENDS Integers, Sequences, FiniteSets, TLC

(***************************************************************************)
(* Bounds                                                                  *)
(***************************************************************************)
\* number of distinct tuple slots the executor touches
NumSlots == 2

\* ItemPointer = (block, offset); two offsets per block
ItemPointers == {<<1 + (i \div 2), i % 2>> : i \in 0..(NumSlots - 1)}

\* number of distinct trigger::TriggerData values
NumTriggerData == 2

\* longest trigger list that is built
MaxTriggers == 2

TriggerDatas == 1..NumTriggerData

\* most entries gc_object_set_ is given
MaxGCObjects == 1

\* (database_oid, table_oid, index_oid) of a dropped object
GCObjects == {<<1, 2, 3>>}

\* the slot touched where the identifiers and the triggers are studied
OneSlot == {<<1, 0>>}

(***************************************************************************)
(* cid_t: a 64-bit unsigned integer, written as four 16-bit words, most    *)
(* significant first                                                       *)
(***************************************************************************)
Word == 0..65535

Cid(w3, w2, w1, w0) == <<w3, w2, w1, w0>>

\* x >> n on 64 bits, for n a multiple of the word size
ShiftRight(x, n) ==
  LET k == n \div 16 IN
  [i \in 1..4 |-> IF i <= k THEN 0 ELSE x[i - k]]

\* the default of Init's commit_id argument
INVALID_CID == Cid(0, 0, 0, 0)

\* arguments handed to the constructors and to Init:
\* thread_id, isolation, read_id, commit_id
CtorArgs ==
  { <<0, "SERIALIZABLE", Cid(0, 0, 0, 5), Cid(0, 0, 0, 6)>>,
    <<1, "SNAPSHOT", Cid(0, 1, 0, 7), Cid(0, 1, 0, 9)>>,
    <<1, "READ_COMMITTED", Cid(65535, 65535, 65535, 65535),
         Cid(65535, 65535, 65535, 65535)>> }

(***************************************************************************)
(* RWType                                                                  *)
(***************************************************************************)
INVALID == "INVALID"
READ == "READ"
READ_OWN == "READ_OWN"
UPDATE == "UPDATE"
INSERT == "INSERT"
DELETE == "DELETE"
INS_DEL == "INS_DEL"

RWType == {INVALID, READ, READ_OWN, UPDATE, INSERT, DELETE, INS_DEL}

\* values of `ret`: the bool a call returned, Void for a call that returns
\* nothing, NoReturn for a call that did not return
True == "true"
False == "false"
Void == "void"
NoReturn == "noreturn"

VARIABLES
  rw_set_,         \* map ItemPointer -> RWType (a function on the stored keys)
  insert_count_,   \* running count of inserts
  is_written_,     \* written flag
  pc,              \* "running", or "aborted" after a failed PL_ASSERT
  ret,             \* what the last call returned
  last,            \* the last call: operation, location, mode before the call
  was_read,        \* history: slots that have held mode READ or READ_OWN
  promoted,        \* history: RecordUpdate/RecordDelete was called on a
                   \*          slot whose mode was READ or READ_OWN
  collapsed,       \* history: slots on which RecordDelete returned true
  n_insert_ok,     \* history: number of RecordInsert calls that returned
  n_delete_true,   \* history: number of RecordDelete calls that returned true
  thread_id_,      \* worker thread
  isolation_level_,
  read_id_,        \* cid_t
  commit_id_,      \* cid_t
  txn_id_,         \* cid_t
  epoch_id_,       \* read_id_ >> 32
  gc_set_,         \* contents of the GCSet gc_set_ points to
  gc_object_set_,  \* contents of the GCObjectSet gc_object_set_ points to
  on_commit_triggers_,  \* unique_ptr<TriggerSet>: null, or the list it owns
  fired,           \* the trigger list the last call handed to ExecTriggers
  init_call,       \* history: the last constructor or Init call, its
                   \*          number of arguments, the arguments, and
                   \*          whether rw_set_ was empty when it was made
  registered       \* history: trigger data handed to AddOnCommitTrigger
                   \*          since the context was initialised, in order

ctxVars == <<rw_set_, insert_count_, is_written_>>
histVars == <<last, was_read, promoted, collapsed, n_insert_ok, n_delete_true>>
idVars == <<thread_id_, isolation_level_, read_id_, commit_id_, txn_id_,
            epoch_id_>>
gcVars == <<gc_set_, gc_object_set_>>
vars == <<rw_set_, insert_count_, is_written_, pc, ret, last, was_read,
          promoted, collapsed, n_insert_ok, n_delete_true, thread_id_,
          isolation_level_, read_id_, commit_id_, txn_id_, epoch_id_,
          gc_set_, gc_object_set_, on_commit_triggers_, fired, init_call,
          registered>>

(***************************************************************************)
(* Helpers                                                                 *)
(***************************************************************************)
\* PL_ASSERT(expr): a fatal assertion; the process aborts when expr is false
PL_ASSERT(expr) == IF expr THEN "running" ELSE "aborted"

\* rw_set_.find(location): INVALID when there is no entry
GetRWType(location) ==
  IF location \in DOMAIN rw_set_ THEN rw_set_[location] ELSE INVALID

\* rw_set_[location] = type
Store(location, type) ==
  [l \in (DOMAIN rw_set_) \cup {location} |->
     IF l = location THEN type ELSE rw_set_[l]]

\* a `break` out of the switch with nothing assigned
Break ==
  [rw_set |-> rw_set_, insert_count |-> insert_count_,
   is_written |-> is_written_, pc |-> "running", ret |-> Void]

\* PL_ASSERT(false && "Bad RWType") with nothing assigned before it
BadRWType ==
  [rw_set |-> rw_set_, insert_count |-> insert_count_,
   is_written |-> is_written_, pc |-> PL_ASSERT(FALSE), ret |-> NoReturn]

\* the executor's view of one call: what was called, on which slot, what
\* the slot's mode was before, and the history that follows from it
Observe(op, location, r) ==
  LET before == GetRWType(location) IN
  /\ last' = [op |-> op, loc |-> location, prev |-> before]
  /\ was_read' = was_read \cup
       {l \in DOMAIN r.rw_set : r.rw_set[l] \in {READ, READ_OWN}}
  /\ promoted' = (promoted \/ (/\ op \in {"RecordUpdate", "RecordDelete"}
                               /\ before \in {READ, READ_OWN}
                               /\ r.pc = "running"))
  /\ collapsed' = IF op = "RecordDelete" /\ r.ret = True
                  THEN collapsed \cup {location} ELSE collapsed
  /\ n_insert_ok' = IF op = "RecordInsert" /\ r.pc = "running"
                    THEN n_insert_ok + 1 ELSE n_insert_ok
  /\ n_delete_true' = IF op = "RecordDelete" /\ r.ret = True
                      THEN n_delete_true + 1 ELSE n_delete_true

\* one call on the context: the fields take the values the call leaves
Call(op, location, r) ==
  /\ pc = "running"
  /\ rw_set_' = r.rw_set
  /\ insert_count_' = r.insert_count
  /\ is_written_' = r.is_written
  /\ pc' = r.pc
  /\ ret' = r.ret
  /\ Observe(op, location, r)
  /\ fired' = << >>
  /\ UNCHANGED <<idVars, gcVars, on_commit_triggers_, registered, init_call>>

(***************************************************************************)
(* Operations                                                              *)
(***************************************************************************)
\* RecordRead with DELETE and INS_DEL falling into the no-change cases
RecordRead_AfterDelete(location) ==
  LET t == GetRWType(location) IN
  Call("RecordRead", location,
    CASE t = INVALID -> [Break EXCEPT !.rw_set = Store(location, READ)]
      [] OTHER -> Break)

\* RecordRead storing READ over an UPDATE entry
RecordRead_Downgrade(location) ==
  LET t == GetRWType(location) IN
  Call("RecordRead", location,
    CASE t \in {INVALID, UPDATE} ->
           [Break EXCEPT !.rw_set = Store(location, READ)]
      [] t \in {READ, READ_OWN, INSERT} -> Break
      [] t \in {DELETE, INS_DEL} -> BadRWType)

RecordRead(location) ==
  LET t == GetRWType(location) IN
  Call("RecordRead", location,
    CASE t = INVALID -> [Break EXCEPT !.rw_set = Store(location, READ)]
      [] t \in {READ, READ_OWN, UPDATE, INSERT} -> Break
      [] t \in {DELETE, INS_DEL} -> BadRWType)

\* RecordReadOwn with UPDATE in the first case group: a downgrade
RecordReadOwn_Downgrade(location) ==
  LET t == GetRWType(location) IN
  Call("RecordReadOwn", location,
    CASE t \in {INVALID, READ, UPDATE} ->
           [Break EXCEPT !.rw_set = Store(location, READ_OWN)]
      [] t \in {READ_OWN, INSERT} -> Break
      [] t \in {DELETE, INS_DEL} -> BadRWType)

RecordReadOwn(location) ==
  LET t == GetRWType(location) IN
  Call("RecordReadOwn", location,
    CASE t \in {INVALID, READ} ->
           [Break EXCEPT !.rw_set = Store(location, READ_OWN)]
      [] t \in {READ_OWN, UPDATE, INSERT} -> Break
      [] t \in {DELETE, INS_DEL} -> BadRWType)

\* RecordUpdate setting is_written_ in the UPDATE/INSERT case as well
RecordUpdate_AlwaysWrites(location) ==
  LET t == GetRWType(location) IN
  Call("RecordUpdate", location,
    CASE t = INVALID -> [Break EXCEPT !.rw_set = Store(location, UPDATE)]
      [] t \in {READ, READ_OWN} ->
           [Break EXCEPT !.rw_set = Store(location, UPDATE),
                         !.is_written = TRUE]
      [] t \in {UPDATE, INSERT} -> [Break EXCEPT !.is_written = TRUE]
      [] t \in {DELETE, INS_DEL} -> BadRWType)

\* RecordUpdate with INSERT sharing the INVALID case
RecordUpdate_OverInsert(location) ==
  LET t == GetRWType(location) IN
  Call("RecordUpdate", location,
    CASE t \in {INVALID, INSERT} ->
           [Break EXCEPT !.rw_set = Store(location, UPDATE)]
      [] t \in {READ, READ_OWN} ->
           [Break EXCEPT !.rw_set = Store(location, UPDATE),
                         !.is_written = TRUE]
      [] t = UPDATE -> Break
      [] t \in {DELETE, INS_DEL} -> BadRWType)

RecordUpdate(location) ==
  LET t == GetRWType(location) IN
  Call("RecordUpdate", location,
    CASE t = INVALID -> [Break EXCEPT !.rw_set = Store(location, UPDATE)]
      [] t \in {READ, READ_OWN} ->
           [Break EXCEPT !.rw_set = Store(location, UPDATE),
                         !.is_written = TRUE]
      [] t \in {UPDATE, INSERT} -> Break
      [] t \in {DELETE, INS_DEL} -> BadRWType)

\* RecordInsert with INSERT as a no-change case instead of the default
RecordInsert_InsertBreaks(location) ==
  LET t == GetRWType(location) IN
  Call("RecordInsert", location,
    CASE t = INVALID ->
           [Break EXCEPT !.rw_set = Store(location, INSERT),
                         !.insert_count = insert_count_ + 1]
      [] t = INSERT -> Break
      [] OTHER -> BadRWType)

\* RecordInsert with READ sharing the INVALID case
RecordInsert_OverRead(location) ==
  LET t == GetRWType(location) IN
  Call("RecordInsert", location,
    CASE t \in {INVALID, READ} ->
           [Break EXCEPT !.rw_set = Store(location, INSERT),
                         !.insert_count = insert_count_ + 1]
      [] OTHER -> BadRWType)

\* RecordInsert with ++insert_count_ ahead of the switch
RecordInsert_CountsFirst(location) ==
  LET t == GetRWType(location) IN
  Call("RecordInsert", location,
    CASE t = INVALID ->
           [Break EXCEPT !.rw_set = Store(location, INSERT),
                         !.insert_count = insert_count_ + 1]
      [] OTHER -> [BadRWType EXCEPT !.insert_count = insert_count_ + 1])

RecordInsert(location) ==
  LET t == GetRWType(location) IN
  Call("RecordInsert", location,
    CASE t = INVALID ->
           [Break EXCEPT !.rw_set = Store(location, INSERT),
                         !.insert_count = insert_count_ + 1]
      [] OTHER -> BadRWType)

\* RecordDelete without --insert_count_ in the INSERT case
RecordDelete_NoDecrement(location) ==
  LET t == GetRWType(location) IN
  Call("RecordDelete", location,
    CASE t = INVALID ->
           [Break EXCEPT !.rw_set = Store(location, DELETE), !.ret = False]
      [] t \in {READ, READ_OWN} ->
           [Break EXCEPT !.rw_set = Store(location, DELETE),
                         !.is_written = TRUE, !.ret = False]
      [] t = UPDATE ->
           [Break EXCEPT !.rw_set = Store(location, DELETE), !.ret = False]
      [] t = INSERT ->
           [Break EXCEPT !.rw_set = Store(location, INS_DEL),
                         !.insert_count = insert_count_,
                         !.is_written = is_written_, !.ret = True]
      [] t \in {DELETE, INS_DEL} -> BadRWType)

\* RecordDelete returning false in the INSERT case
RecordDelete_ReturnsFalse(location) ==
  LET t == GetRWType(location) IN
  Call("RecordDelete", location,
    CASE t = INVALID ->
           [Break EXCEPT !.rw_set = Store(location, DELETE), !.ret = False]
      [] t \in {READ, READ_OWN} ->
           [Break EXCEPT !.rw_set = Store(location, DELETE),
                         !.is_written = TRUE, !.ret = False]
      [] t = UPDATE ->
           [Break EXCEPT !.rw_set = Store(location, DELETE), !.ret = False]
      [] t = INSERT ->
           [Break EXCEPT !.rw_set = Store(location, INS_DEL),
                         !.insert_count = insert_count_ - 1,
                         !.is_written = is_written_, !.ret = False]
      [] t \in {DELETE, INS_DEL} -> BadRWType)

\* RecordDelete without is_written_ = true in the READ/READ_OWN case
RecordDelete_NoFlag(location) ==
  LET t == GetRWType(location) IN
  Call("RecordDelete", location,
    CASE t = INVALID ->
           [Break EXCEPT !.rw_set = Store(location, DELETE), !.ret = False]
      [] t \in {READ, READ_OWN} ->
           [Break EXCEPT !.rw_set = Store(location, DELETE),
                         !.is_written = is_written_, !.ret = False]
      [] t = UPDATE ->
           [Break EXCEPT !.rw_set = Store(location, DELETE), !.ret = False]
      [] t = INSERT ->
           [Break EXCEPT !.rw_set = Store(location, INS_DEL),
                         !.insert_count = insert_count_ - 1,
                         !.is_written = is_written_, !.ret = True]
      [] t \in {DELETE, INS_DEL} -> BadRWType)

\* RecordDelete setting is_written_ in the INSERT case
RecordDelete_CollapseWrites(location) ==
  LET t == GetRWType(location) IN
  Call("RecordDelete", location,
    CASE t = INVALID ->
           [Break EXCEPT !.rw_set = Store(location, DELETE), !.ret = False]
      [] t \in {READ, READ_OWN} ->
           [Break EXCEPT !.rw_set = Store(location, DELETE),
                         !.is_written = TRUE, !.ret = False]
      [] t = UPDATE ->
           [Break EXCEPT !.rw_set = Store(location, DELETE), !.ret = False]
      [] t = INSERT ->
           [Break EXCEPT !.rw_set = Store(location, INS_DEL),
                         !.insert_count = insert_count_ - 1,
                         !.is_written = TRUE, !.ret = True]
      [] t \in {DELETE, INS_DEL} -> BadRWType)

\* RecordDelete storing DELETE in the INSERT case
RecordDelete_InsertToDelete(location) ==
  LET t == GetRWType(location) IN
  Call("RecordDelete", location,
    CASE t = INVALID ->
           [Break EXCEPT !.rw_set = Store(location, DELETE), !.ret = False]
      [] t \in {READ, READ_OWN} ->
           [Break EXCEPT !.rw_set = Store(location, DELETE),
                         !.is_written = TRUE, !.ret = False]
      [] t = UPDATE ->
           [Break EXCEPT !.rw_set = Store(location, DELETE), !.ret = False]
      [] t = INSERT ->
           [Break EXCEPT !.rw_set = Store(location, DELETE),
                         !.insert_count = insert_count_ - 1,
                         !.is_written = is_written_, !.ret = True]
      [] t \in {DELETE, INS_DEL} -> BadRWType)

\* RecordDelete with --insert_count_ in the UPDATE case as well
RecordDelete_UpdateDecrements(location) ==
  LET t == GetRWType(location) IN
  Call("RecordDelete", location,
    CASE t = INVALID ->
           [Break EXCEPT !.rw_set = Store(location, DELETE), !.ret = False]
      [] t \in {READ, READ_OWN} ->
           [Break EXCEPT !.rw_set = Store(location, DELETE),
                         !.is_written = TRUE, !.ret = False]
      [] t = UPDATE ->
           [Break EXCEPT !.rw_set = Store(location, DELETE),
                         !.insert_count = insert_count_ - 1, !.ret = False]
      [] t = INSERT ->
           [Break EXCEPT !.rw_set = Store(location, INS_DEL),
                         !.insert_count = insert_count_ - 1, !.ret = True]
      [] t \in {DELETE, INS_DEL} -> BadRWType)

RecordDelete(location) ==
  LET t == GetRWType(location) IN
  Call("RecordDelete", location,
    CASE t = INVALID ->
           [Break EXCEPT !.rw_set = Store(location, DELETE), !.ret = False]
      [] t \in {READ, READ_OWN} ->
           [Break EXCEPT !.rw_set = Store(location, DELETE),
                         !.is_written = TRUE, !.ret = False]
      [] t = UPDATE ->
           [Break EXCEPT !.rw_set = Store(location, DELETE), !.ret = False]
      [] t = INSERT ->
           [Break EXCEPT !.rw_set = Store(location, INS_DEL),
                         !.insert_count = insert_count_ - 1, !.ret = True]
      [] t \in {DELETE, INS_DEL} -> BadRWType)

(***************************************************************************)
(* Init and the constructors                                               *)
(***************************************************************************)
\* on_commit_triggers_.reset(): the pointer owns nothing
NullTriggers == [null |-> TRUE, set |-> << >>]

\* new trigger::TriggerSet(): an empty list
NewTriggerSet == [null |-> FALSE, set |-> << >>]

\* Init with epoch_id_ = read_id_ >> 16
TransactionContextInit_Shift16(thread_id, isolation, read_id, commit_id) ==
  LET read_id_new == read_id
      commit_id_new == commit_id
  IN [read_id |-> read_id_new,
      commit_id |-> commit_id_new,
      txn_id |-> commit_id_new,
      epoch_id |-> ShiftRight(read_id_new, 16),
      thread_id |-> thread_id,
      isolation_level |-> isolation,
      is_written |-> FALSE,
      insert_count |-> 0,
      gc_set |-> {},
      gc_object_set |-> << >>,
      on_commit_triggers |-> NullTriggers]

\* Init with txn_id_ = read_id_
TransactionContextInit_TxnFromRead(thread_id, isolation, read_id, commit_id) ==
  LET read_id_new == read_id
      commit_id_new == commit_id
  IN [read_id |-> read_id_new,
      commit_id |-> commit_id_new,
      txn_id |-> read_id_new,
      epoch_id |-> ShiftRight(read_id_new, 32),
      thread_id |-> thread_id,
      isolation_level |-> isolation,
      is_written |-> FALSE,
      insert_count |-> 0,
      gc_set |-> {},
      gc_object_set |-> << >>,
      on_commit_triggers |-> NullTriggers]

\* Init with on_commit_triggers_.reset(new trigger::TriggerSet())
TransactionContextInit_NewTriggerSet(thread_id, isolation, read_id, commit_id) ==
  LET read_id_new == read_id
      commit_id_new == commit_id
  IN [read_id |-> read_id_new,
      commit_id |-> commit_id_new,
      txn_id |-> commit_id_new,
      epoch_id |-> ShiftRight(read_id_new, 32),
      thread_id |-> thread_id,
      isolation_level |-> isolation,
      is_written |-> FALSE,
      insert_count |-> 0,
      gc_set |-> {},
      gc_object_set |-> << >>,
      on_commit_triggers |-> NewTriggerSet]

\* TransactionContext::Init: the values it assigns to the fields
TransactionContextInit(thread_id, isolation, read_id, commit_id) ==
  LET read_id_new == read_id
      commit_id_new == commit_id
  IN [read_id |-> read_id_new,
      commit_id |-> commit_id_new,
      txn_id |-> commit_id_new,
      epoch_id |-> ShiftRight(read_id_new, 32),
      thread_id |-> thread_id,
      isolation_level |-> isolation,
      is_written |-> FALSE,
      insert_count |-> 0,
      gc_set |-> {},
      gc_object_set |-> << >>,
      on_commit_triggers |-> NullTriggers]

\* Init called with nargs arguments; with three, commit_id takes its default
InitWith(nargs, a) ==
  IF nargs = 3
  THEN TransactionContextInit(a[1], a[2], a[3], INVALID_CID)
  ELSE TransactionContextInit(a[1], a[2], a[3], a[4])

\* the two constructors: both delegate to Init
Constructed(nargs, a) == InitWith(nargs, a)

\* no location: the `loc` of a call that takes none
NoLocation == <<0, 0>>

(***************************************************************************)
(* Specification: a freshly constructed context and the Record* calls      *)
(***************************************************************************)
Init ==
  /\ rw_set_ = << >>
  /\ pc = "running"
  /\ ret = Void
  /\ last = [op |-> "ctor", loc |-> NoLocation, prev |-> INVALID]
  /\ was_read = {}
  /\ promoted = FALSE
  /\ collapsed = {}
  /\ n_insert_ok = 0
  /\ n_delete_true = 0
  /\ fired = << >>
  /\ registered = << >>
  /\ \E nargs \in {3, 4} : \E a \in CtorArgs :
       LET f == Constructed(nargs, a) IN
       /\ init_call = [op |-> "ctor", nargs |-> nargs, args |-> a,
                       rw_empty |-> TRUE]
       /\ read_id_ = f.read_id
       /\ commit_id_ = f.commit_id
       /\ txn_id_ = f.txn_id
       /\ epoch_id_ = f.epoch_id
       /\ thread_id_ = f.thread_id
       /\ isolation_level_ = f.isolation_level
       /\ is_written_ = f.is_written
       /\ insert_count_ = f.insert_count
       /\ gc_set_ = f.gc_set
       /\ gc_object_set_ = f.gc_object_set
       /\ on_commit_triggers_ = f.on_commit_triggers

DoRecordRead == \E location \in ItemPointers : RecordRead(location)
DoRecordReadOwn == \E location \in ItemPointers : RecordReadOwn(location)
DoRecordUpdate == \E location \in ItemPointers : RecordUpdate(location)
DoRecordInsert == \E location \in ItemPointers : RecordInsert(location)
DoRecordDelete == \E location \in ItemPointers : RecordDelete(location)

Next ==
  \/ DoRecordRead
  \/ DoRecordReadOwn
  \/ DoRecordUpdate
  \/ DoRecordInsert
  \/ DoRecordDelete

Spec == Init /\ [][Next]_vars

(***************************************************************************)
(* Specification: the Record* calls and lookups by GetRWType               *)
(***************************************************************************)
\* GetRWType through rw_set_[location], which adds a missing key
GetRWTypeCall_Subscript(location) ==
  Call("GetRWType", location,
       [Break EXCEPT !.rw_set = Store(location, GetRWType(location)),
                     !.ret = GetRWType(location)])

\* a call of GetRWType by the executor: it returns the mode it finds
GetRWTypeCall(location) ==
  Call("GetRWType", location, [Break EXCEPT !.ret = GetRWType(location)])

DoGetRWType == \E location \in ItemPointers : GetRWTypeCall(location)

NextRW ==
  \/ DoRecordRead
  \/ DoRecordReadOwn
  \/ DoRecordUpdate
  \/ DoRecordInsert
  \/ DoRecordDelete
  \/ DoGetRWType

SpecRW == Init /\ [][NextRW]_vars

(***************************************************************************)
(* Triggers                                                                *)
(***************************************************************************)
\* a call that is not a Record* call: what it leaves of the trigger list
\* and what it handed to ExecTriggers
TriggerCall(op, triggers, handed, reg) ==
  /\ pc = "running"
  /\ on_commit_triggers_' = triggers
  /\ fired' = handed
  /\ registered' = reg
  /\ last' = [op |-> op, loc |-> NoLocation, prev |-> INVALID]
  /\ ret' = Void
  /\ pc' = "running"
  /\ UNCHANGED <<ctxVars, idVars, gcVars, init_call, was_read, promoted,
                 collapsed, n_insert_ok, n_delete_true>>

\* AddOnCommitTrigger inserting at the front of the list
AddOnCommitTrigger_PushFront(trigger_data) ==
  LET allocated == IF on_commit_triggers_.null
                   THEN NewTriggerSet ELSE on_commit_triggers_
  IN /\ Len(on_commit_triggers_.set) < MaxTriggers
     /\ TriggerCall("AddOnCommitTrigger",
                     [allocated EXCEPT !.set = <<trigger_data>> \o @],
                     << >>, Append(registered, trigger_data))

AddOnCommitTrigger(trigger_data) ==
  LET allocated == IF on_commit_triggers_.null
                   THEN NewTriggerSet ELSE on_commit_triggers_
  IN /\ Len(on_commit_triggers_.set) < MaxTriggers
     /\ TriggerCall("AddOnCommitTrigger",
                     [allocated EXCEPT !.set = Append(@, trigger_data)],
                     << >>, Append(registered, trigger_data))

\* TriggerSet::ExecTriggers: the list as the execution leaves it
ExecTriggers(set) == set

\* ExecOnCommitTriggers allocating the list when there is none
ExecOnCommitTriggers_Allocates ==
  LET allocated == IF on_commit_triggers_.null
                   THEN NewTriggerSet ELSE on_commit_triggers_
  IN TriggerCall("ExecOnCommitTriggers",
                 [allocated EXCEPT !.set = ExecTriggers(@)],
                 allocated.set, registered)

\* ExecOnCommitTriggers dropping the list once it is executed
ExecOnCommitTriggers_Resets ==
  IF ~on_commit_triggers_.null
  THEN TriggerCall("ExecOnCommitTriggers", NullTriggers,
                   on_commit_triggers_.set, registered)
  ELSE TriggerCall("ExecOnCommitTriggers", on_commit_triggers_, << >>,
                   registered)

ExecOnCommitTriggers ==
  IF ~on_commit_triggers_.null
  THEN TriggerCall("ExecOnCommitTriggers",
                   [on_commit_triggers_ EXCEPT !.set = ExecTriggers(@)],
                   on_commit_triggers_.set, registered)
  ELSE TriggerCall("ExecOnCommitTriggers", on_commit_triggers_, << >>,
                   registered)

DoAddOnCommitTrigger ==
  \E trigger_data \in TriggerDatas : AddOnCommitTrigger(trigger_data)

(***************************************************************************)
(* Specification: a freshly constructed context, the Record* calls on one  *)
(* slot and the trigger calls                                              *)
(***************************************************************************)
NextTrig ==
  \/ \E location \in OneSlot : RecordRead(location)
  \/ \E location \in OneSlot : RecordReadOwn(location)
  \/ \E location \in OneSlot : RecordUpdate(location)
  \/ \E location \in OneSlot : RecordInsert(location)
  \/ \E location \in OneSlot : RecordDelete(location)
  \/ DoAddOnCommitTrigger
  \/ ExecOnCommitTriggers

SpecTrig == Init /\ [][NextTrig]_vars

(***************************************************************************)
(* Specification: as before, with Init called again on the live context    *)
(* and the executor filling the garbage sets                               *)
(***************************************************************************)
\* the executor adds a slot to the GCSet it reaches through the context
AddToGCSet(location) ==
  /\ pc = "running"
  /\ location \notin gc_set_
  /\ gc_set_' = gc_set_ \cup {location}
  /\ last' = [op |-> "AddToGCSet", loc |-> location, prev |-> INVALID]
  /\ ret' = Void
  /\ fired' = << >>
  /\ UNCHANGED <<ctxVars, idVars, gc_object_set_, on_commit_triggers_, pc,
                 registered, init_call, was_read, promoted, collapsed,
                 n_insert_ok, n_delete_true>>

\* the executor adds an object to the GCObjectSet it reaches through the
\* context
AddToGCObjectSet(obj) ==
  /\ pc = "running"
  /\ Len(gc_object_set_) < MaxGCObjects
  /\ gc_object_set_' = Append(gc_object_set_, obj)
  /\ last' = [op |-> "AddToGCObjectSet", loc |-> NoLocation, prev |-> INVALID]
  /\ ret' = Void
  /\ fired' = << >>
  /\ UNCHANGED <<ctxVars, idVars, gc_set_, on_commit_triggers_, pc,
                 registered, init_call, was_read, promoted, collapsed,
                 n_insert_ok, n_delete_true>>

\* Init with rw_set_.clear() added
InitCall_ClearsRWSet(nargs, a) ==
  LET f == InitWith(nargs, a) IN
  /\ pc = "running"
  /\ read_id_' = f.read_id
  /\ commit_id_' = f.commit_id
  /\ txn_id_' = f.txn_id
  /\ epoch_id_' = f.epoch_id
  /\ thread_id_' = f.thread_id
  /\ isolation_level_' = f.isolation_level
  /\ is_written_' = f.is_written
  /\ insert_count_' = f.insert_count
  /\ gc_set_' = f.gc_set
  /\ gc_object_set_' = f.gc_object_set
  /\ on_commit_triggers_' = f.on_commit_triggers
  /\ init_call' = [op |-> "Init", nargs |-> nargs, args |-> a,
                    rw_empty |-> (DOMAIN rw_set_ = {})]
  /\ last' = [op |-> "Init", loc |-> NoLocation, prev |-> INVALID]
  /\ ret' = Void
  /\ fired' = << >>
  /\ registered' = << >>
  /\ rw_set_' = << >>
  /\ UNCHANGED <<pc, was_read, promoted, collapsed, n_insert_ok,
                 n_delete_true>>

\* Init called on the live context with nargs arguments
InitCall(nargs, a) ==
  LET f == InitWith(nargs, a) IN
  /\ pc = "running"
  /\ read_id_' = f.read_id
  /\ commit_id_' = f.commit_id
  /\ txn_id_' = f.txn_id
  /\ epoch_id_' = f.epoch_id
  /\ thread_id_' = f.thread_id
  /\ isolation_level_' = f.isolation_level
  /\ is_written_' = f.is_written
  /\ insert_count_' = f.insert_count
  /\ gc_set_' = f.gc_set
  /\ gc_object_set_' = f.gc_object_set
  /\ on_commit_triggers_' = f.on_commit_triggers
  /\ init_call' = [op |-> "Init", nargs |-> nargs, args |-> a,
                    rw_empty |-> (DOMAIN rw_set_ = {})]
  /\ last' = [op |-> "Init", loc |-> NoLocation, prev |-> INVALID]
  /\ ret' = Void
  /\ fired' = << >>
  /\ registered' = << >>
  /\ UNCHANGED <<rw_set_, pc, was_read, promoted, collapsed, n_insert_ok,
                 n_delete_true>>

DoInit == \E nargs \in {3, 4} : \E a \in CtorArgs : InitCall(nargs, a)

NextInit ==
  \/ \E location \in OneSlot : RecordRead(location)
  \/ \E location \in OneSlot : RecordReadOwn(location)
  \/ \E location \in OneSlot : RecordUpdate(location)
  \/ \E location \in OneSlot : RecordInsert(location)
  \/ \E location \in OneSlot : RecordDelete(location)
  \/ DoAddOnCommitTrigger
  \/ ExecOnCommitTriggers
  \/ \E location \in OneSlot : AddToGCSet(location)
  \/ \E obj \in GCObjects : AddToGCObjectSet(obj)
  \/ DoInit

SpecInit == Init /\ [][NextInit]_vars

TypeOK ==
  /\ DOMAIN rw_set_ \subseteq ItemPointers
  /\ \A l \in DOMAIN rw_set_ : rw_set_[l] \in RWType
  /\ insert_count_ \in Int
  /\ is_written_ \in BOOLEAN
  /\ pc \in {"running", "aborted"}
  /\ \A i \in 1..4 : read_id_[i] \in Word /\ epoch_id_[i] \in Word
  /\ on_commit_triggers_.null \in BOOLEAN


(***************************************************************************)
(* The Record* calls as functions of the context they are called on, for   *)
(* comparing sequences of calls                                            *)
(***************************************************************************)
\* the context as it is now
Context ==
  [rw_set |-> rw_set_, insert_count |-> insert_count_,
   is_written |-> is_written_, pc |-> pc, ret |-> ret]

\* GetRWType on context c
GetRWTypeOn(c, location) ==
  IF location \in DOMAIN c.rw_set THEN c.rw_set[location] ELSE INVALID

\* rw_set_[location] = type on context c
StoreOn(c, location, type) ==
  [c EXCEPT !.rw_set = [l \in (DOMAIN c.rw_set) \cup {location} |->
                          IF l = location THEN type ELSE c.rw_set[l]]]

\* a `break` with nothing assigned, in a call that returns nothing
BreakOn(c) == [c EXCEPT !.pc = "running", !.ret = Void]

\* PL_ASSERT(false && "Bad RWType") with nothing assigned before it
BadRWTypeOn(c) == [c EXCEPT !.pc = PL_ASSERT(FALSE), !.ret = NoReturn]

RecordReadOn(c, location) ==
  LET t == GetRWTypeOn(c, location) IN
  CASE t = INVALID -> StoreOn(BreakOn(c), location, READ)
    [] t \in {READ, READ_OWN, UPDATE, INSERT} -> BreakOn(c)
    [] t \in {DELETE, INS_DEL} -> BadRWTypeOn(c)

RecordReadOwnOn(c, location) ==
  LET t == GetRWTypeOn(c, location) IN
  CASE t \in {INVALID, READ} -> StoreOn(BreakOn(c), location, READ_OWN)
    [] t \in {READ_OWN, UPDATE, INSERT} -> BreakOn(c)
    [] t \in {DELETE, INS_DEL} -> BadRWTypeOn(c)

\* RecordUpdate with is_written_ = false in the INVALID case
RecordUpdateOn_ResetsFlag(c, location) ==
  LET t == GetRWTypeOn(c, location) IN
  CASE t = INVALID -> [StoreOn(BreakOn(c), location, UPDATE) EXCEPT !.is_written = FALSE]
    [] t \in {READ, READ_OWN} ->
         [StoreOn(BreakOn(c), location, UPDATE) EXCEPT !.is_written = TRUE]
    [] t \in {UPDATE, INSERT} -> BreakOn(c)
    [] t \in {DELETE, INS_DEL} -> BadRWTypeOn(c)

\* RecordUpdate with is_written_ = true in the INVALID case as well
RecordUpdateOn_AlwaysWrites(c, location) ==
  LET t == GetRWTypeOn(c, location) IN
  CASE t = INVALID -> [StoreOn(BreakOn(c), location, UPDATE) EXCEPT !.is_written = TRUE]
    [] t \in {READ, READ_OWN} ->
         [StoreOn(BreakOn(c), location, UPDATE) EXCEPT !.is_written = TRUE]
    [] t \in {UPDATE, INSERT} -> BreakOn(c)
    [] t \in {DELETE, INS_DEL} -> BadRWTypeOn(c)

\* RecordUpdate on context c
RecordUpdateOn(c, location) ==
  LET t == GetRWTypeOn(c, location) IN
  CASE t = INVALID -> StoreOn(BreakOn(c), location, UPDATE)
    [] t \in {READ, READ_OWN} ->
         [StoreOn(BreakOn(c), location, UPDATE) EXCEPT !.is_written = TRUE]
    [] t \in {UPDATE, INSERT} -> BreakOn(c)
    [] t \in {DELETE, INS_DEL} -> BadRWTypeOn(c)

RecordInsertOn(c, location) ==
  LET t == GetRWTypeOn(c, location) IN
  CASE t = INVALID ->
         [StoreOn(BreakOn(c), location, INSERT)
            EXCEPT !.insert_count = c.insert_count + 1]
    [] OTHER -> BadRWTypeOn(c)

RecordDeleteOn(c, location) ==
  LET t == GetRWTypeOn(c, location) IN
  CASE t = INVALID ->
         [StoreOn(BreakOn(c), location, DELETE) EXCEPT !.ret = False]
    [] t \in {READ, READ_OWN} ->
         [StoreOn(BreakOn(c), location, DELETE)
            EXCEPT !.is_written = TRUE, !.ret = False]
    [] t = UPDATE ->
         [StoreOn(BreakOn(c), location, DELETE) EXCEPT !.ret = False]
    [] t = INSERT ->
         [StoreOn(BreakOn(c), location, INS_DEL)
            EXCEPT !.insert_count = c.insert_count - 1, !.ret = True]
    [] t \in {DELETE, INS_DEL} -> BadRWTypeOn(c)

\* the call op(location) made on context c; an aborted process makes no
\* call
Run(op, location, c) ==
  IF c.pc # "running" THEN c
  ELSE CASE op = "RecordRead" -> RecordReadOn(c, location)
         [] op = "RecordReadOwn" -> RecordReadOwnOn(c, location)
         [] op = "RecordUpdate" -> RecordUpdateOn(c, location)
         [] op = "RecordInsert" -> RecordInsertOn(c, location)
         [] op = "RecordDelete" -> RecordDeleteOn(c, location)

(***************************************************************************)
(* Properties                                                              *)
(***************************************************************************)
\* the mode a read/write set holds for a slot, INVALID when it has no entry
ModeIn(set, l) == IF l \in DOMAIN set THEN set[l] ELSE INVALID

\* the step changed no entry of the read/write set other than slot l
OnlySlotChanged(l) ==
  /\ DOMAIN rw_set_' \subseteq (DOMAIN rw_set_) \cup {l}
  /\ \A k \in ItemPointers \ {l} : ModeIn(rw_set_', k) = ModeIn(rw_set_, k)

InsertSlots == {l \in DOMAIN rw_set_ : rw_set_[l] = INSERT}

\* C1: after any sequence of Record* calls that all complete normally on a
\* fresh context, insert_count_ is the number of slots whose mode is INSERT.
C1_InsertCount ==
  pc = "running" => insert_count_ = Cardinality(InsertSlots)

C1_Witness ==
  /\ pc = "running"
  /\ insert_count_ = 1
  /\ \E l \in DOMAIN rw_set_ : rw_set_[l] = INS_DEL
  /\ \E l \in DOMAIN rw_set_ : rw_set_[l] = INSERT

\* C2: a RecordDelete that completes normally returns true iff the mode of
\* the slot before the call was INSERT; for INVALID, READ, READ_OWN and
\* UPDATE it returns false.
C2_DeleteReturn ==
  (last.op = "RecordDelete" /\ pc = "running") =>
     /\ ret \in {True, False}
     /\ (ret = True) <=> (last.prev = INSERT)
     /\ last.prev \in {INVALID, READ, READ_OWN, UPDATE} => ret = False

C2_Witness ==
  /\ last.op = "RecordDelete"
  /\ pc = "running"
  /\ last.prev = INSERT
  /\ ret = True
  /\ \E l \in DOMAIN rw_set_ : rw_set_[l] = DELETE

\* C3: DELETE and INS_DEL are terminal: once a slot has one of these modes
\* its mode never changes, and every Record* call on it fails the
\* assertion instead of returning.
C3_Terminal ==
  [][\A l \in ItemPointers :
       ModeIn(rw_set_, l) \in {DELETE, INS_DEL} =>
         /\ ModeIn(rw_set_', l) = ModeIn(rw_set_, l)
         /\ last'.loc = l => (pc' = "aborted" /\ ret' = NoReturn)]_vars

C3_Witness ==
  /\ pc = "aborted"
  /\ last.prev \in {DELETE, INS_DEL}
  /\ ModeIn(rw_set_, last.loc) = last.prev
  /\ last.op \in {"RecordRead", "RecordReadOwn", "RecordUpdate"}

\* a call that the claim C4 says leaves is_written_ alone
LeavesWrittenAlone(c) ==
  \/ c.op \in {"RecordRead", "RecordReadOwn", "RecordInsert"}
  \/ c.op \in {"RecordUpdate", "RecordDelete"} /\ c.prev = INVALID
  \/ c.op = "RecordDelete" /\ c.prev = UPDATE

\* C4: is_written_ is true iff RecordUpdate or RecordDelete was called
\* earlier on a slot whose mode then was READ or READ_OWN; once true it
\* stays true; RecordUpdate/RecordDelete on a slot with no entry,
\* RecordDelete on an UPDATE slot and every RecordRead, RecordReadOwn and
\* RecordInsert leave it unchanged.
C4_IsWritten ==
  /\ [](is_written_ <=> promoted)
  /\ [][/\ is_written_ => is_written_'
        /\ LeavesWrittenAlone(last') => (is_written_' = is_written_)]_vars

C4_Witness ==
  /\ is_written_
  /\ pc = "running"
  /\ last.op = "RecordDelete"
  /\ last.prev = UPDATE
  /\ \E l \in DOMAIN rw_set_ : rw_set_[l] = READ

\* some slot now UPDATE, DELETE or INS_DEL held READ or READ_OWN earlier
PromotedSlot ==
  \E l \in DOMAIN rw_set_ :
     rw_set_[l] \in {UPDATE, DELETE, INS_DEL} /\ l \in was_read

\* C5 as stated: is_written_ iff some slot now UPDATE, DELETE or INS_DEL
\* held READ or READ_OWN earlier, or the INSERT -> INS_DEL collapse was
\* taken for some slot.
C5_Original ==
  pc = "running" => (is_written_ <=> (PromotedSlot \/ collapsed # {}))

\* C5 amended: is_written_ iff some slot now UPDATE, DELETE or INS_DEL held
\* READ or READ_OWN earlier; the INSERT -> INS_DEL collapse does not set it.
C5_WrittenFlag ==
  pc = "running" => (is_written_ <=> PromotedSlot)

C5_Witness ==
  /\ pc = "running"
  /\ collapsed # {}
  /\ ~is_written_
  /\ \E l \in DOMAIN rw_set_ : rw_set_[l] = UPDATE

\* C6: is_written_ implies that some slot of rw_set_ has mode UPDATE,
\* DELETE or INS_DEL.
C6_WrittenImpliesWrite ==
  is_written_ =>
    \E l \in DOMAIN rw_set_ : rw_set_[l] \in {UPDATE, DELETE, INS_DEL}

C6_Witness ==
  /\ is_written_
  /\ \E l \in DOMAIN rw_set_ : rw_set_[l] = DELETE /\ l \in was_read
  /\ \A l \in DOMAIN rw_set_ : rw_set_[l] \in {DELETE, INSERT}

\* C7 as stated: RecordInsert on a slot whose mode is INSERT completes
\* normally and changes nothing.
C7_Original ==
  [][(last'.op = "RecordInsert" /\ last'.prev = INSERT) =>
       /\ pc' = "running"
       /\ UNCHANGED <<rw_set_, insert_count_, is_written_>>]_vars

\* C7 amended: RecordInsert on a slot whose mode is INSERT takes the
\* default branch and fails the assertion; rw_set_, insert_count_ and
\* is_written_ are left as they were.
C7_InsertOnInsert ==
  [][(last'.op = "RecordInsert" /\ last'.prev = INSERT) =>
       /\ pc' = "aborted"
       /\ ret' = NoReturn
       /\ ModeIn(rw_set_', last'.loc) = INSERT
       /\ UNCHANGED <<rw_set_, insert_count_, is_written_>>]_vars

C7_Witness ==
  /\ last.op = "RecordInsert"
  /\ last.prev = INSERT
  /\ pc = "aborted"
  /\ insert_count_ = 1

\* C8: RecordInsert on a slot with no entry stores INSERT for it and adds
\* exactly one to insert_count_ without changing is_written_; on a slot
\* whose mode is READ, READ_OWN, UPDATE, DELETE or INS_DEL it fails the
\* assertion.
C8_RecordInsert ==
  [][last'.op = "RecordInsert" =>
       /\ last'.prev = INVALID =>
            /\ pc' = "running"
            /\ ModeIn(rw_set_, last'.loc) = INVALID
            /\ ModeIn(rw_set_', last'.loc) = INSERT
            /\ OnlySlotChanged(last'.loc)
            /\ insert_count_' = insert_count_ + 1
            /\ is_written_' = is_written_
       /\ last'.prev \in {READ, READ_OWN, UPDATE, DELETE, INS_DEL} =>
            /\ pc' = "aborted"
            /\ ret' = NoReturn]_vars

C8_Witness ==
  /\ last.op = "RecordInsert"
  /\ last.prev = INVALID
  /\ pc = "running"
  /\ is_written_
  /\ insert_count_ = 1

\* the upgrade lattice of RecordRead, RecordReadOwn and RecordUpdate
Upgrade(op, prev) ==
  CASE op = "RecordRead" /\ prev = INVALID -> READ
    [] op = "RecordReadOwn" /\ prev \in {INVALID, READ} -> READ_OWN
    [] op = "RecordUpdate" /\ prev \in {INVALID, READ, READ_OWN} -> UPDATE
    [] OTHER -> prev

\* C9: on a slot whose mode is INVALID, READ, READ_OWN or UPDATE,
\* RecordRead changes only INVALID -> READ, RecordReadOwn only INVALID ->
\* READ_OWN and READ -> READ_OWN, RecordUpdate only INVALID, READ, READ_OWN
\* -> UPDATE; every other cell returns with rw_set_ unchanged, and none of
\* these calls changes insert_count_.
C9_UpgradeLattice ==
  [][(/\ last'.op \in {"RecordRead", "RecordReadOwn", "RecordUpdate"}
      /\ last'.prev \in {INVALID, READ, READ_OWN, UPDATE}) =>
       /\ pc' = "running"
       /\ ModeIn(rw_set_, last'.loc) = last'.prev
       /\ ModeIn(rw_set_', last'.loc) = Upgrade(last'.op, last'.prev)
       /\ OnlySlotChanged(last'.loc)
       /\ Upgrade(last'.op, last'.prev) = last'.prev => rw_set_' = rw_set_
       /\ insert_count_' = insert_count_]_vars

C9_Witness ==
  /\ last.op = "RecordReadOwn"
  /\ last.prev = UPDATE
  /\ pc = "running"
  /\ ModeIn(rw_set_, last.loc) = UPDATE
  /\ \E l \in DOMAIN rw_set_ : rw_set_[l] = READ_OWN /\ l # last.loc

\* C10: RecordDelete stores DELETE when the mode before is INVALID, READ,
\* READ_OWN or UPDATE, leaving insert_count_ alone, and INS_DEL when it is
\* INSERT, taking exactly one from insert_count_; DELETE is never reached
\* from INSERT, and INS_DEL only from INSERT.
C10_RecordDelete ==
  [][/\ last'.op = "RecordDelete" =>
          /\ last'.prev \in {INVALID, READ, READ_OWN, UPDATE} =>
               /\ ModeIn(rw_set_', last'.loc) = DELETE
               /\ insert_count_' = insert_count_
          /\ last'.prev = INSERT =>
               /\ ModeIn(rw_set_', last'.loc) = INS_DEL
               /\ insert_count_' = insert_count_ - 1
     /\ \A l \in ItemPointers :
          /\ (ModeIn(rw_set_', l) = DELETE /\ ModeIn(rw_set_, l) # DELETE) =>
               /\ ModeIn(rw_set_, l) \in {INVALID, READ, READ_OWN, UPDATE}
               /\ last'.op = "RecordDelete" /\ last'.loc = l
          /\ (ModeIn(rw_set_', l) = INS_DEL /\ ModeIn(rw_set_, l) # INS_DEL) =>
               /\ ModeIn(rw_set_, l) = INSERT
               /\ last'.op = "RecordDelete" /\ last'.loc = l]_vars

C10_Witness ==
  /\ last.op = "RecordDelete"
  /\ pc = "running"
  /\ \E l \in DOMAIN rw_set_ : rw_set_[l] = DELETE
  /\ \E l \in DOMAIN rw_set_ : rw_set_[l] = INS_DEL
  /\ insert_count_ = 0
  /\ n_insert_ok = 1

\* C11: on a slot whose mode is INSERT, RecordRead, RecordReadOwn and
\* RecordUpdate return normally and leave rw_set_, insert_count_ and
\* is_written_ unchanged; the slot stays INSERT.
C11_InsertAbsorbs ==
  [][(/\ last'.op \in {"RecordRead", "RecordReadOwn", "RecordUpdate"}
      /\ last'.prev = INSERT) =>
       /\ pc' = "running"
       /\ ModeIn(rw_set_, last'.loc) = INSERT
       /\ ModeIn(rw_set_', last'.loc) = INSERT
       /\ UNCHANGED <<rw_set_, insert_count_, is_written_>>]_vars

C11_Witness ==
  /\ last.op = "RecordUpdate"
  /\ last.prev = INSERT
  /\ pc = "running"
  /\ ModeIn(rw_set_, last.loc) = INSERT
  /\ insert_count_ = 1
  /\ ~is_written_

\* C16: insert_count_ is never negative on a fresh context; it decreases
\* only in a RecordDelete that moves a slot from INSERT to INS_DEL, by
\* exactly one; it equals the number of RecordInsert calls that returned
\* minus the number of RecordDelete calls that returned true.
C16_InsertCountNonNegative ==
  /\ [](insert_count_ >= 0 /\ insert_count_ = n_insert_ok - n_delete_true)
  /\ [][insert_count_' < insert_count_ =>
          /\ last'.op = "RecordDelete"
          /\ last'.prev = INSERT
          /\ ModeIn(rw_set_, last'.loc) = INSERT
          /\ ModeIn(rw_set_', last'.loc) = INS_DEL
          /\ ret' = True
          /\ insert_count_' = insert_count_ - 1]_vars

C16_Witness ==
  /\ n_insert_ok = 2
  /\ n_delete_true = 1
  /\ insert_count_ = 1
  /\ last.op = "RecordDelete"
  /\ last.prev = INSERT

\* a call on an illegal cell of the transition table
IllegalCall(c) ==
  \/ /\ c.op \in {"RecordRead", "RecordReadOwn", "RecordUpdate",
                  "RecordInsert", "RecordDelete"}
     /\ c.prev \in {DELETE, INS_DEL}
  \/ c.op = "RecordInsert" /\ c.prev # INVALID

\* C19: a Record* call on an illegal cell (any call on a DELETE or INS_DEL
\* slot, RecordInsert on a slot that has an entry) fails the assertion and
\* does not return, rw_set_, insert_count_ and is_written_ are what they
\* were before the call; no other call fails.
C19_NoPartialMutation ==
  [][/\ IllegalCall(last') =>
          /\ pc' = "aborted"
          /\ ret' = NoReturn
          /\ UNCHANGED <<rw_set_, insert_count_, is_written_>>
     /\ pc' = "aborted" => IllegalCall(last')]_vars

C19_Witness ==
  /\ pc = "aborted"
  /\ last.op = "RecordInsert"
  /\ last.prev = READ
  /\ ModeIn(rw_set_, last.loc) = READ
  /\ insert_count_ = 1

\* the two chains along which the mode of a slot moves
ChainRead == <<INVALID, READ, READ_OWN, UPDATE, DELETE>>
ChainInsert == <<INVALID, INSERT, INS_DEL>>

\* mode m2 is mode m or comes later in one of the chains
Forward(m, m2) ==
  \E chain \in {ChainRead, ChainInsert} :
    \E i \in DOMAIN chain : \E j \in DOMAIN chain :
      i <= j /\ chain[i] = m /\ chain[j] = m2

\* C20: the mode of a slot only moves forward in one of the chains
\* INVALID < READ < READ_OWN < UPDATE < DELETE and INVALID < INSERT <
\* INS_DEL; it is never downgraded and never crosses to the other chain,
\* and no Record* call removes a key from rw_set_.
C20_Monotone ==
  [][/\ \A l \in ItemPointers :
          Forward(ModeIn(rw_set_, l), ModeIn(rw_set_', l))
     /\ DOMAIN rw_set_ \subseteq DOMAIN rw_set_']_vars

C20_Witness ==
  /\ last.op = "RecordRead"
  /\ last.prev = UPDATE
  /\ pc = "running"
  /\ ModeIn(rw_set_, last.loc) = UPDATE
  /\ \E l \in DOMAIN rw_set_ : rw_set_[l] = INS_DEL

RecordOps ==
  {"RecordRead", "RecordReadOwn", "RecordUpdate", "RecordInsert",
   "RecordDelete"}

\* C17: INVALID is never stored: every key of rw_set_ maps to READ,
\* READ_OWN, UPDATE, INSERT, DELETE or INS_DEL; GetRWType returns INVALID
\* exactly when the slot has no entry and adds no entry itself; after a
\* Record* call on a slot that returns, GetRWType of it is not INVALID.
C17_InvalidNeverStored ==
  /\ [](\A l \in DOMAIN rw_set_ : rw_set_[l] \in RWType \ {INVALID})
  /\ [](last.op = "GetRWType" =>
          /\ (ret = INVALID) <=> (last.loc \notin DOMAIN rw_set_)
          /\ last.loc \in DOMAIN rw_set_ => ret = rw_set_[last.loc])
  /\ [][last'.op = "GetRWType" => rw_set_' = rw_set_]_vars
  /\ []((last.op \in RecordOps /\ pc = "running") =>
          /\ last.loc \in DOMAIN rw_set_
          /\ GetRWType(last.loc) # INVALID)

C17_Witness ==
  /\ last.op = "GetRWType"
  /\ ret = INVALID
  /\ last.loc \notin DOMAIN rw_set_
  /\ \E l \in DOMAIN rw_set_ : rw_set_[l] = INS_DEL

\* the last call was a constructor or Init
JustInitialised == last.op \in {"ctor", "Init"}

\* C12: epoch_id_ is the high 32 bits of the 64-bit read_id_ after either
\* constructor and after every Init call, whatever read_id is given, and
\* in every state reached afterwards by Record* and trigger calls.
C12_EpochId ==
  /\ [](epoch_id_ = <<0, 0, read_id_[1], read_id_[2]>>)
  /\ [](JustInitialised => read_id_ = init_call.args[3])
  /\ [][last'.op \notin {"ctor", "Init"} =>
          UNCHANGED <<read_id_, epoch_id_>>]_vars

C12_Witness ==
  /\ init_call.op = "Init"
  /\ last.op = "ExecOnCommitTriggers"
  /\ read_id_ = <<65535, 65535, 65535, 65535>>
  /\ epoch_id_ = <<0, 0, 65535, 65535>>
  /\ rw_set_ # << >>

\* C13: right after either constructor or Init, txn_id_ equals commit_id_,
\* which is the commit_id argument when one is given and INVALID_CID (0)
\* when the three-argument form is used.
C13_TxnIdIsCommitId ==
  JustInitialised =>
    /\ txn_id_ = commit_id_
    /\ init_call.nargs = 4 => commit_id_ = init_call.args[4]
    /\ init_call.nargs = 3 => commit_id_ = <<0, 0, 0, 0>>

C13_Witness ==
  /\ last.op = "Init"
  /\ init_call.nargs = 4
  /\ txn_id_ = <<0, 1, 0, 9>>
  /\ commit_id_ = <<0, 1, 0, 9>>
  /\ rw_set_ # << >>

\* C14: Init restores the default payload state whatever the state before:
\* after it is_written_ is false, insert_count_ is 0, gc_set_ and
\* gc_object_set_ are empty, on_commit_triggers_ is null, and a later
\* ExecOnCommitTriggers executes no trigger registered before the Init.
C14_InitRestoresDefaults ==
  /\ [](JustInitialised =>
          /\ is_written_ = FALSE
          /\ insert_count_ = 0
          /\ gc_set_ = {}
          /\ gc_object_set_ = << >>
          /\ on_commit_triggers_.null
          /\ on_commit_triggers_.set = << >>)
  /\ [][last'.op = "ExecOnCommitTriggers" => fired' = registered]_vars

C14_Witness ==
  /\ last.op = "Init"
  /\ \E l \in DOMAIN rw_set_ : rw_set_[l] = INSERT
  /\ insert_count_ = 0
  /\ gc_set_ = {}
  /\ on_commit_triggers_.null

\* C15: for AddOnCommitTrigger calls T1..Tn interleaved with Record*
\* calls, the trigger list holds exactly T1..Tn in registration order: it
\* is allocated on the first registration, each call appends at the end,
\* and ExecOnCommitTriggers hands that list to execution in that order.
C15_TriggerOrder ==
  /\ [](/\ on_commit_triggers_.set = registered
        /\ on_commit_triggers_.null <=> (registered = << >>))
  /\ [][/\ last'.op = "AddOnCommitTrigger" =>
             /\ ~on_commit_triggers_'.null
             /\ \E t \in TriggerDatas :
                  on_commit_triggers_'.set =
                    Append(on_commit_triggers_.set, t)
        /\ last'.op = "ExecOnCommitTriggers" => fired' = registered
        /\ last'.op \in RecordOps =>
             on_commit_triggers_' = on_commit_triggers_]_vars

C15_Witness ==
  /\ last.op = "ExecOnCommitTriggers"
  /\ registered = <<2, 1>>
  /\ fired = <<2, 1>>
  /\ rw_set_ # << >>

\* C18: ExecOnCommitTriggers with no trigger registered since the
\* constructor or the last Init does nothing: it executes no trigger,
\* allocates no trigger list and leaves every field of the context as it
\* was.
C18_ExecNoTriggers ==
  [][(last'.op = "ExecOnCommitTriggers" /\ registered = << >>) =>
       /\ pc' = "running"
       /\ fired' = << >>
       /\ on_commit_triggers_'.null
       /\ UNCHANGED <<ctxVars, idVars, gcVars, on_commit_triggers_>>]_vars

C18_Witness ==
  /\ last.op = "ExecOnCommitTriggers"
  /\ registered = << >>
  /\ on_commit_triggers_.null
  /\ init_call.op = "Init"
  /\ gc_set_ # {}

\* every Record* step of the context is the step Run computes
RunMatchesCalls ==
  [][last'.op \in RecordOps =>
       Run(last'.op, last'.loc, Context) = Context']_vars

\* the fields two sequences of calls are compared on
SameFields(a, b) ==
  /\ a.rw_set = b.rw_set
  /\ a.insert_count = b.insert_count
  /\ a.is_written = b.is_written

\* C21: Record* calls on distinct slots s and t are independent and
\* commute: op1(s) does not change the mode of t nor whether op2(t) is
\* legal, and op1(s); op2(t) and op2(t); op1(s) either both fail or end in
\* the same rw_set_, insert_count_ and is_written_ with the same return
\* values.
C21_Commute ==
  pc = "running" =>
    \A s \in ItemPointers : \A t \in ItemPointers \ {s} :
      \A op1 \in RecordOps : \A op2 \in RecordOps :
        LET c == Context
            a1 == Run(op1, s, c)
            a2 == Run(op2, t, a1)
            b1 == Run(op2, t, c)
            b2 == Run(op1, s, b1)
        IN /\ GetRWTypeOn(a1, t) = GetRWTypeOn(c, t)
           /\ a1.pc = "running" =>
                ((a2.pc = "running") <=> (b1.pc = "running"))
           /\ (a2.pc = "running") <=> (b2.pc = "running")
           /\ a2.pc = "running" =>
                /\ SameFields(a2, b2)
                /\ a1.ret = b2.ret
                /\ a2.ret = b1.ret

C21_Witness ==
  /\ pc = "running"
  /\ \E s \in ItemPointers : \E t \in ItemPointers \ {s} :
       /\ GetRWTypeOn(Context, s) = READ
       /\ GetRWTypeOn(Context, t) = INSERT
       /\ ~is_written_
       /\ LET a2 == Run("RecordDelete", t, Run("RecordUpdate", s, Context))
          IN /\ a2.pc = "running"
             /\ a2.is_written
             /\ a2.insert_count = 0
             /\ a2.ret = True

\* C22: is_written_ depends on the order of the calls and not only on the
\* rw_set_ reached: on a slot with no entry, RecordRead; RecordUpdate and
\* RecordUpdate; RecordRead both end with the slot UPDATE, the first with
\* is_written_ true and the second with is_written_ as it was, so UPDATE
\* or DELETE entries can stand with is_written_ false.
C22_OrderDependent ==
  pc = "running" =>
    \A s \in ItemPointers :
      GetRWTypeOn(Context, s) = INVALID =>
        LET ru == Run("RecordUpdate", s, Run("RecordRead", s, Context))
            ur == Run("RecordRead", s, Run("RecordUpdate", s, Context))
            ud == Run("RecordDelete", s, Run("RecordUpdate", s, Context))
        IN /\ ru.pc = "running" /\ ur.pc = "running" /\ ud.pc = "running"
           /\ ru.rw_set = ur.rw_set
           /\ GetRWTypeOn(ru, s) = UPDATE
           /\ GetRWTypeOn(ud, s) = DELETE
           /\ ru.is_written = TRUE
           /\ ur.is_written = is_written_
           /\ ud.is_written = is_written_

C22_Witness ==
  /\ pc = "running"
  /\ ~is_written_
  /\ last.op = "RecordRead"
  /\ last.prev = UPDATE
  /\ GetRWTypeOn(Context, last.loc) = UPDATE
  /\ \E l \in DOMAIN rw_set_ : rw_set_[l] = DELETE

\* C23: Init leaves rw_set_ untouched: on a context that has entries it
\* sets insert_count_ to 0 and is_written_ to false and keeps every entry
\* and its mode, so insert_count_ is the number of INSERT slots only where
\* rw_set_ was empty at the last Init.
C23_InitKeepsRWSet ==
  /\ [][last'.op = "Init" =>
          /\ rw_set_' = rw_set_
          /\ insert_count_' = 0
          /\ is_written_' = FALSE]_vars
  /\ []((init_call.rw_empty /\ pc = "running") =>
          insert_count_ = Cardinality(InsertSlots))

C23_Witness ==
  /\ last.op = "Init"
  /\ ~init_call.rw_empty
  /\ \E l \in DOMAIN rw_set_ : rw_set_[l] = INSERT
  /\ insert_count_ = 0
  /\ Cardinality(InsertSlots) = 1

=============================================================================
